---- MODULE Spec2Model ----
(***************************************************************************)
(* Model of brave_rewards::p3a (rewards_p3a.cc): the ConversionMonitor of  *)
(* both builds (desktop and Android), its two timers and the durable       *)
(* weekly panel-trigger counter, with the histogram samples each call      *)
(* records.                                                                *)
(*                                                                         *)
(* Time is counted in ticks, TicksPerMinute ticks to the minute.  A        *)
(* base::Time is the number of ticks since the epoch; the null time        *)
(* base::Time() is 0 and base::Time::Now() is always later than that.      *)
(***************************************************************************)
EXTENDS Integers, Sequences, FiniteSets, TLC

\* ------------------------------------------------------------------ bounds

\* Resolution of the clock: ticks per minute.
TicksPerMinute == 2

\* base::Time::Now() when the first monitor is constructed.
StartTime == 1

\* Report periods covered by a run.
MaxDays == 7

\* Ticks after each whole-week boundary in which the clock moves by single
\* ticks and the monitor's callers are active.
MaxFine == 3

\* RecordPanelTrigger calls in one run.
MaxTriggers == 2

\* The tip counts RecordTipsSent is called with are 0..MaxTips.
MaxTips == 4

\* --------------------------------------------------------------- constants

INT_MAX == 2147483647

kMaxEnabledCauseTriggerTime == 1 * TicksPerMinute

kReportInterval == 1 * 24 * 60 * TicksPerMinute

\* WeeklyStorage keeps the last seven days.
kDaysInWeek == 7

kWeek == kDaysInWeek * 24 * 60 * TicksPerMinute

kEnabledSourceHistogramName == "Brave.Rewards.EnabledSource"

kToolbarButtonTriggerHistogramName == "Brave.Rewards.ToolbarButtonTrigger"

kMobileConversionHistogramName == "Brave.Rewards.MobileConversion"

kMobilePanelCountHistogramName == "Brave.Rewards.MobilePanelCount"

kMobilePanelCountBuckets == <<5, 10, 50>>

kTipsSentHistogramName == "Brave.Rewards.TipsSent.2"

kAutoContributionsStateHistogramName == "Brave.Rewards.AutoContributionsState.3"

kAdTypesEnabledHistogramName == "Brave.Rewards.AdTypesEnabled"

kTipsSentBuckets == <<0, 1, 3>>

\* enum class PanelTrigger, transmitted as its index.
kInlineTip == 0

kToolbarButton == 1

kNTP == 2

PanelTrigger == {kInlineTip, kToolbarButton, kNTP}

kMaxValue == kNTP

MaxTime == StartTime + MaxDays * kReportInterval + MaxFine

\* Weekly sums the durable counter may hold from earlier sessions.
StoredSums == {0, 4, 9, 49}

\* enum class AdTypesEnabled, in declaration order
kAdsNone == 0

kAdsNTP == 1

kAdsNotification == 2

kAdsAll == 3

kAdsMaxValue == kAdsAll

\* ----------------------------------------------------------------- metrics

\* UMA_HISTOGRAM_EXACT_LINEAR(name, sample, exclusive_max)
ExactLinear(name, sample, max) ==
    [macro |-> "UMA_HISTOGRAM_EXACT_LINEAR", name |-> name,
     sample |-> sample, max |-> max]

\* UMA_HISTOGRAM_ENUMERATION(name, sample): the boundary is kMaxValue + 1
Enumeration(name, sample) ==
    [macro |-> "UMA_HISTOGRAM_ENUMERATION", name |-> name,
     sample |-> sample, max |-> kMaxValue + 1]

\* UMA_HISTOGRAM_ENUMERATION(name, sample) of an AdTypesEnabled
AdTypesEnumeration(name, sample) ==
    [macro |-> "UMA_HISTOGRAM_ENUMERATION", name |-> name,
     sample |-> sample, max |-> kAdsMaxValue + 1]

\* UMA_HISTOGRAM_BOOLEAN(name, sample)
BooleanSample(name, b) ==
    [macro |-> "UMA_HISTOGRAM_BOOLEAN", name |-> name,
     sample |-> IF b THEN 1 ELSE 0, max |-> 2]

\* The index of the bucket of value: the number of thresholds <= value.
BucketIndex(buckets, value) ==
    Cardinality({i \in 1..Len(buckets) : buckets[i] <= value})

\* p3a_utils::RecordToHistogramBucket(name, buckets, value)
RecordToHistogramBucket(name, buckets, value) ==
    [macro |-> "UMA_HISTOGRAM_EXACT_LINEAR", name |-> name,
     sample |-> BucketIndex(buckets, value), max |-> Len(buckets) + 1]

\* The samples of em recorded into histogram name.
SamplesOf(em, name) == SelectSeq(em, LAMBDA e : e.name = name)

\* ---------------------------------------------------------- weekly storage

RECURSIVE SumSince(_, _, _)
\* The deltas of storage recorded no more than kWeek before t.
SumSince(storage, t, i) ==
    IF i > Len(storage) THEN 0
    ELSE (IF t - storage[i].at <= kWeek THEN storage[i].n ELSE 0)
         + SumSince(storage, t, i + 1)

\* WeeklyStorage::GetWeeklySum()
GetWeeklySum(storage, t) == SumSince(storage, t, 1)

\* WeeklyStorage::AddDelta(delta)
AddDelta(storage, delta, t) ==
    IF delta = 0 THEN storage
    ELSE IF Len(storage) > 0 /\ storage[Len(storage)].at = t
    THEN [storage EXCEPT ![Len(storage)].n = @ + delta]
    ELSE Append(storage, [at |-> t, n |-> delta])

\* ------------------------------------------------------------------- state

VARIABLES
    is_android,                  \* BUILDFLAG(IS_ANDROID)
    alive,                       \* the monitor is constructed and not destroyed
    now,                         \* base::Time::Now()
    enabled,                     \* prefs::kEnabled
    last_trigger_,               \* absl::optional<PanelTrigger>: <<>> or <<kind>>
    last_trigger_time_,          \* base::Time, 0 when null
    mobile_panel_trigger_count_, \* WeeklyStorage on prefs::kP3APanelTriggerCount
    mobile_trigger_timer_,       \* base::OneShotTimer: <<>> or <<deadline>>
    daily_timer_,                \* base::WallClockTimer: <<>> or <<deadline>>
    emitted,                     \* the samples the last step recorded, in order
    lastOp,                      \* the last step of the monitor, or "idle"
    lastTrig,                    \* the last RecordPanelTrigger call (desktop)
    ncalls,                      \* RecordPanelTrigger calls so far
    enablesSinceTrigger,         \* RecordRewardsEnable calls since lastTrig (desktop)
    attribSinceTrigger,          \* EnabledSource samples since lastTrig
    nattrib,                     \* EnabledSource samples so far
    callsAll,                    \* every RecordPanelTrigger call, as a storage
    callsEnabled,                \* those made with prefs::kEnabled set
    timerTrig,                   \* the last RecordPanelTrigger with kEnabled unset
    firesSinceTrigger,           \* mobile_trigger_timer_ firings since timerTrig
    runLen,                      \* triggers of the current run of restarts
    cancelled,                   \* the timer the last RecordRewardsEnable stopped
    destroyedWith,               \* the deadlines pending when the monitor ended
    ntp_enabled,                 \* kNewTabPageShowSponsoredImagesBackgroundImage
    notification_enabled,        \* brave_ads::prefs::kOptedInToNotificationAds
    lastArg                      \* the tip_count of the last RecordTipsSent

vars ==
    <<is_android, alive, now, enabled, last_trigger_, last_trigger_time_,
      mobile_panel_trigger_count_, mobile_trigger_timer_, daily_timer_,
      emitted, lastOp, lastTrig, ncalls, enablesSinceTrigger,
      attribSinceTrigger, nattrib, callsAll, callsEnabled, timerTrig,
      firesSinceTrigger, runLen, cancelled, destroyedWith, ntp_enabled,
      notification_enabled, lastArg>>

monitor == <<last_trigger_, last_trigger_time_, mobile_trigger_timer_, daily_timer_>>

ghosts ==
    <<lastTrig, ncalls, enablesSinceTrigger, attribSinceTrigger, nattrib,
      callsAll, callsEnabled, timerTrig, firesSinceTrigger, runLen, cancelled,
      destroyedWith>>

\* What the monitor's steps leave alone: the ad preferences and the record of
\* the last RecordTipsSent.
reporterState == <<ntp_enabled, notification_enabled, lastArg>>

\* The ghost counters tell 0, 1 and more than 1 apart.
Capped(n) == IF n > 1 THEN 2 ELSE n

\* The callers of the monitor are active.
Active == (now - StartTime) % kWeek <= MaxFine

NoTrig == [kind |-> kInlineTip, at |-> 0, overwritten |-> <<>>, overwrittenAt |-> 0]

\* -------------------------------------------------------- the code's steps

HasValue(opt) == Len(opt) > 0

\* Mutant: the window closes at the boundary (>= for >).
CauseTooOld_AtBoundary(trigger_time, t) ==
    t - trigger_time >= kMaxEnabledCauseTriggerTime

\* base::Time::Now() - last_trigger_time_ > kMaxEnabledCauseTriggerTime
CauseTooOld(trigger_time, t) == t - trigger_time > kMaxEnabledCauseTriggerTime

\* Mutant: the age of the trigger is not looked at.
NoAttribution_SlotOnly == ~HasValue(last_trigger_)

\* RecordRewardsEnable, desktop: whether the call returns before attributing.
NoAttribution ==
    \/ ~HasValue(last_trigger_)
    \/ CauseTooOld(last_trigger_time_, now)

\* Mutant: the toolbar metric is suppressed only when nothing is attributed.
RewardsEnableSamples_SuppressOnReturn ==
    IF NoAttribution
    THEN <<ExactLinear(kToolbarButtonTriggerHistogramName, INT_MAX - 1, 2)>>
    ELSE <<Enumeration(kEnabledSourceHistogramName, last_trigger_[1])>>

\* RecordRewardsEnable, desktop: the samples it records, in order.
RewardsEnableSamples ==
    <<ExactLinear(kToolbarButtonTriggerHistogramName, INT_MAX - 1, 2)>>
    \o (IF NoAttribution THEN <<>>
        ELSE <<Enumeration(kEnabledSourceHistogramName, last_trigger_[1])>>)

\* RecordRewardsEnable, desktop: last_trigger_.reset()
ResetTrigger == <<>>

\* Mutant: the time of the trigger outlives the attribution.
ResetTriggerTime_Kept == last_trigger_time_

\* RecordRewardsEnable, desktop: last_trigger_time_ = base::Time()
ResetTriggerTime == 0

\* Mutant: every enable clears the slot.
SlotAfterEnable_AlwaysCleared == <<ResetTrigger, ResetTriggerTime>>

\* Mutant: the slot is not cleared after an attribution.
SlotAfterEnable_NotCleared == <<last_trigger_, last_trigger_time_>>

\* RecordRewardsEnable, desktop: last_trigger_ and last_trigger_time_ after it.
SlotAfterEnable ==
    IF NoAttribution THEN <<last_trigger_, last_trigger_time_>>
    ELSE <<ResetTrigger, ResetTriggerTime>>

\* Mutant: every kind of trigger is recorded as a toolbar-button trigger.
PanelTriggerSamples_EveryKind(trigger) ==
    <<ExactLinear(kToolbarButtonTriggerHistogramName, 1, 2)>>

\* RecordPanelTrigger, desktop: the sample of a toolbar-button trigger.
PanelTriggerSamples(trigger) ==
    IF trigger = kToolbarButton
    THEN <<ExactLinear(kToolbarButtonTriggerHistogramName, 1, 2)>>
    ELSE <<>>

\* Mutant: a pending trigger is not overwritten.
StoredTrigger_KeepPending(trigger) ==
    IF Len(last_trigger_) > 0 THEN last_trigger_ ELSE <<trigger>>

\* RecordPanelTrigger, desktop: last_trigger_ = trigger
StoredTrigger(trigger) == <<trigger>>

\* RecordPanelTrigger, desktop: last_trigger_time_ = base::Time::Now()
StoredTriggerTime == now

\* Mutant: a weekly sum of 0 is reported too.
ReportMobilePanelTriggerCount_ZeroToo(storage, t) ==
    <<RecordToHistogramBucket(kMobilePanelCountHistogramName,
                              kMobilePanelCountBuckets, GetWeeklySum(storage, t))>>

\* ConversionMonitor::ReportMobilePanelTriggerCount: the samples it records.
ReportMobilePanelTriggerCount(storage, t) ==
    LET total == GetWeeklySum(storage, t)
    IN  IF total = 0 THEN <<>>
        ELSE <<RecordToHistogramBucket(kMobilePanelCountHistogramName,
                                       kMobilePanelCountBuckets, total)>>

\* Mutant: the state bound when the timer was started (kEnabled unset).
OnMobileTriggerTimer_StateAtTrigger ==
    <<BooleanSample(kMobileConversionHistogramName, FALSE)>>

\* ConversionMonitor::OnMobileTriggerTimer: the sample it records.
OnMobileTriggerTimer ==
    <<BooleanSample(kMobileConversionHistogramName, enabled)>>

\* Mutant: a trigger is counted twice.
CountedPanelTrigger_Twice(storage, t) ==
    IF enabled THEN AddDelta(storage, 2, t) ELSE storage

\* Mutant: the trigger is counted whatever kEnabled is.
CountedPanelTrigger_Always(storage, t) == AddDelta(storage, 1, t)

\* RecordPanelTrigger, Android: the counter after the call.
CountedPanelTrigger(storage, t) ==
    IF enabled THEN AddDelta(storage, 1, t) ELSE storage

\* Mutant: a running timer is left alone.
StartedTriggerTimer_KeepRunning(t) ==
    IF Len(mobile_trigger_timer_) > 0 THEN mobile_trigger_timer_
    ELSE <<t + kMaxEnabledCauseTriggerTime>>

\* RecordPanelTrigger, Android: mobile_trigger_timer_.Start(kMaxEnabledCause...)
StartedTriggerTimer(t) == <<t + kMaxEnabledCauseTriggerTime>>

\* Mutant: the timer is not stopped.
StoppedTriggerTimer_StillRunning == mobile_trigger_timer_

\* RecordRewardsEnable, Android: mobile_trigger_timer_.Stop()
StoppedTriggerTimer == <<>>

\* Mutant: only the constructor starts the timer; a firing does not.
StartedDailyTimer_NotAgain(t) ==
    IF t = StartTime THEN <<t + kReportInterval>> ELSE <<>>

\* ReportPeriodicMetrics: daily_timer_.Start(Now() + kReportInterval)
StartedDailyTimer(t) == <<t + kReportInterval>>

\* The deadlines of the running timers.
Deadlines ==
    {mobile_trigger_timer_[i] : i \in 1..Len(mobile_trigger_timer_)}
    \cup {daily_timer_[i] : i \in 1..Len(daily_timer_)}

\* Mutant: the destructor leaves the periodic callback posted.
DestroyedDailyTimer_StillPosted == daily_timer_

\* ~ConversionMonitor: daily_timer_ is destroyed, which stops it.
DestroyedDailyTimer == <<>>

\* ~ConversionMonitor: mobile_trigger_timer_ is destroyed, which stops it.
DestroyedTriggerTimer == <<>>

\* Mutant: RecordTipsSent counts the tips from one.
RecordTipsSentSamples_FromOne(tip_count) ==
    <<RecordToHistogramBucket(kTipsSentHistogramName, kTipsSentBuckets,
                              tip_count + 1)>>

\* RecordTipsSent(tip_count): the samples it records.
RecordTipsSentSamples(tip_count) ==
    <<RecordToHistogramBucket(kTipsSentHistogramName, kTipsSentBuckets,
                              tip_count)>>

\* Mutant: the suspending value is the last bucket below the boundary.
RecordNoWalletCreatedForAllMetricsSamples_LastBucket ==
    <<ExactLinear(kTipsSentHistogramName, 3 - 2, 3),
      ExactLinear(kAutoContributionsStateHistogramName, 2 - 2, 2)>>

\* RecordNoWalletCreatedForAllMetrics(): the samples it records.
RecordNoWalletCreatedForAllMetricsSamples ==
    <<ExactLinear(kTipsSentHistogramName, INT_MAX - 1, 3),
      ExactLinear(kAutoContributionsStateHistogramName, INT_MAX - 1, 2)>>

\* RecordAdTypesEnabled(prefs): the answer of the enabled branch.
AdTypesAnswer ==
    IF ntp_enabled /\ notification_enabled THEN kAdsAll
    ELSE IF ntp_enabled THEN kAdsNTP
    ELSE IF notification_enabled THEN kAdsNotification
    ELSE kAdsNone

\* RecordAdTypesEnabled(prefs): the samples it records.
RecordAdTypesEnabledSamples ==
    IF ~enabled
    THEN <<ExactLinear(kAdTypesEnabledHistogramName, INT_MAX - 1, 4)>>
    ELSE <<AdTypesEnumeration(kAdTypesEnabledHistogramName, AdTypesAnswer)>>

\* ------------------------------------------------------------------ actions

Init ==
    /\ is_android \in BOOLEAN
    /\ alive = TRUE
    /\ now = StartTime
    /\ enabled \in BOOLEAN
    /\ last_trigger_ = <<>>
    /\ last_trigger_time_ = 0
    /\ \E stored \in StoredSums :
          mobile_panel_trigger_count_ =
              (IF is_android THEN AddDelta(<<>>, stored, StartTime) ELSE <<>>)
    /\ mobile_trigger_timer_ = <<>>
    /\ daily_timer_ = (IF is_android THEN StartedDailyTimer(StartTime) ELSE <<>>)
    /\ emitted = (IF is_android
                  THEN ReportMobilePanelTriggerCount(mobile_panel_trigger_count_,
                                                     StartTime)
                  ELSE <<>>)
    /\ lastOp = "ConversionMonitor"
    /\ lastTrig = NoTrig
    /\ ncalls = 0
    /\ enablesSinceTrigger = 0
    /\ attribSinceTrigger = 0
    /\ nattrib = 0
    /\ callsAll = mobile_panel_trigger_count_
    /\ callsEnabled = mobile_panel_trigger_count_
    /\ timerTrig = 0
    /\ firesSinceTrigger = 0
    /\ runLen = 0
    /\ cancelled = <<>>
    /\ destroyedWith = {}
    /\ ntp_enabled = FALSE
    /\ notification_enabled = FALSE
    /\ lastArg = 0

\* ConversionMonitor::~ConversionMonitor(): the members go with the monitor,
\* and a destroyed timer is stopped.
Destroy ==
    /\ alive
    /\ alive' = FALSE
    /\ last_trigger_' = <<>>
    /\ last_trigger_time_' = 0
    /\ mobile_trigger_timer_' = DestroyedTriggerTimer
    /\ daily_timer_' = DestroyedDailyTimer
    /\ emitted' = <<>>
    /\ lastOp' = "~ConversionMonitor"
    /\ destroyedWith' = Deadlines
    /\ lastTrig' = NoTrig
    /\ enablesSinceTrigger' = 0
    /\ attribSinceTrigger' = 0
    /\ timerTrig' = 0
    /\ firesSinceTrigger' = 0
    /\ runLen' = 0
    /\ cancelled' = <<>>
    /\ UNCHANGED <<is_android, now, enabled, mobile_panel_trigger_count_,
                   ncalls, nattrib, callsAll, callsEnabled>>
    /\ UNCHANGED reporterState

\* ConversionMonitor::RecordPanelTrigger(trigger)
RecordPanelTrigger(trigger) ==
    /\ alive
    /\ Active
    /\ ncalls < MaxTriggers
    /\ IF ~is_android
       THEN /\ emitted' = PanelTriggerSamples(trigger)
            /\ last_trigger_' = StoredTrigger(trigger)
            /\ last_trigger_time_' = StoredTriggerTime
            /\ enablesSinceTrigger' = 0
            /\ attribSinceTrigger' = 0
            /\ UNCHANGED <<mobile_panel_trigger_count_, mobile_trigger_timer_,
                           callsAll, callsEnabled, timerTrig,
                           firesSinceTrigger, runLen, cancelled>>
       ELSE /\ mobile_panel_trigger_count_' =
                   CountedPanelTrigger(mobile_panel_trigger_count_, now)
            /\ IF enabled
               THEN /\ emitted' = ReportMobilePanelTriggerCount(
                                      mobile_panel_trigger_count_', now)
                    /\ UNCHANGED <<mobile_trigger_timer_, timerTrig,
                                   firesSinceTrigger, runLen, cancelled>>
               ELSE /\ mobile_trigger_timer_' = StartedTriggerTimer(now)
                    /\ emitted' = <<>>
                    /\ timerTrig' = now
                    /\ firesSinceTrigger' = 0
                    /\ runLen' = (IF HasValue(mobile_trigger_timer_)
                                     /\ now - timerTrig < kMaxEnabledCauseTriggerTime
                                  THEN Capped(runLen + 1) ELSE 1)
                    /\ cancelled' = <<>>
            /\ callsAll' = AddDelta(callsAll, 1, now)
            /\ callsEnabled' = (IF enabled THEN AddDelta(callsEnabled, 1, now)
                                ELSE callsEnabled)
            /\ UNCHANGED <<last_trigger_, last_trigger_time_,
                           enablesSinceTrigger, attribSinceTrigger>>
    /\ lastOp' = "RecordPanelTrigger"
    /\ lastTrig' = (IF is_android THEN lastTrig
                    ELSE [kind |-> trigger, at |-> now,
                          overwritten |-> last_trigger_,
                          overwrittenAt |-> last_trigger_time_])
    /\ ncalls' = ncalls + 1
    /\ UNCHANGED <<is_android, alive, now, enabled, daily_timer_, nattrib,
                   destroyedWith>>
    /\ UNCHANGED reporterState

\* ConversionMonitor::RecordRewardsEnable()
RecordRewardsEnable ==
    /\ alive
    /\ Active
    /\ IF ~is_android
       THEN /\ emitted' = RewardsEnableSamples
            /\ last_trigger_' = SlotAfterEnable[1]
            /\ last_trigger_time_' = SlotAfterEnable[2]
            /\ enablesSinceTrigger' = Capped(enablesSinceTrigger + 1)
            /\ UNCHANGED <<mobile_trigger_timer_, cancelled>>
       ELSE /\ mobile_trigger_timer_' = StoppedTriggerTimer
            /\ emitted' = OnMobileTriggerTimer
            /\ cancelled' = (IF HasValue(mobile_trigger_timer_)
                             THEN mobile_trigger_timer_ ELSE cancelled)
            /\ UNCHANGED <<last_trigger_, last_trigger_time_, enablesSinceTrigger>>
    /\ lastOp' = "RecordRewardsEnable"
    /\ LET n == Len(SamplesOf(emitted', kEnabledSourceHistogramName))
       IN  /\ attribSinceTrigger' = Capped(attribSinceTrigger + n)
           /\ nattrib' = (IF nattrib + n > MaxTriggers THEN MaxTriggers + 1
                          ELSE nattrib + n)
    /\ UNCHANGED <<is_android, alive, now, enabled, mobile_panel_trigger_count_,
                   daily_timer_, lastTrig, ncalls, callsAll, callsEnabled,
                   timerTrig, firesSinceTrigger, runLen, destroyedWith>>
    /\ UNCHANGED reporterState

\* mobile_trigger_timer_ fires: it runs OnMobileTriggerTimer, once.  The
\* callback is bound with base::Unretained(this): it runs whenever the timer
\* is still running at its deadline.
MobileTriggerTimerFires ==
    /\ mobile_trigger_timer_ = <<now>>
    /\ mobile_trigger_timer_' = <<>>
    /\ emitted' = OnMobileTriggerTimer
    /\ lastOp' = "OnMobileTriggerTimer"
    /\ firesSinceTrigger' = Capped(firesSinceTrigger + 1)
    /\ UNCHANGED <<is_android, alive, now, enabled, last_trigger_,
                   last_trigger_time_, mobile_panel_trigger_count_, daily_timer_,
                   lastTrig, ncalls, enablesSinceTrigger, attribSinceTrigger,
                   nattrib, callsAll, callsEnabled, timerTrig, runLen,
                   cancelled, destroyedWith>>
    /\ UNCHANGED reporterState

\* Mutant: the report is rescheduled on the timer of the deferred check.
ReportPeriodicMetrics_WrongTimer ==
    /\ daily_timer_ = <<now>>
    /\ emitted' = ReportMobilePanelTriggerCount(mobile_panel_trigger_count_, now)
    /\ daily_timer_' = <<>>
    /\ mobile_trigger_timer_' = StartedDailyTimer(now)
    /\ lastOp' = "ReportPeriodicMetrics"
    /\ UNCHANGED <<is_android, alive, now, enabled, last_trigger_,
                   last_trigger_time_, mobile_panel_trigger_count_>>
    /\ UNCHANGED ghosts
    /\ UNCHANGED reporterState

\* daily_timer_ fires: it runs ConversionMonitor::ReportPeriodicMetrics.
ReportPeriodicMetrics ==
    /\ daily_timer_ = <<now>>
    /\ emitted' = ReportMobilePanelTriggerCount(mobile_panel_trigger_count_, now)
    /\ daily_timer_' = StartedDailyTimer(now)
    /\ lastOp' = "ReportPeriodicMetrics"
    /\ UNCHANGED <<is_android, alive, now, enabled, last_trigger_,
                   last_trigger_time_, mobile_panel_trigger_count_,
                   mobile_trigger_timer_>>
    /\ UNCHANGED ghosts
    /\ UNCHANGED reporterState

\* prefs::kEnabled is written by the rewards service.
SetEnabled ==
    /\ Active
    /\ enabled' = ~enabled
    /\ emitted' = <<>>
    /\ lastOp' = "idle"
    /\ UNCHANGED <<is_android, alive, now, mobile_panel_trigger_count_>>
    /\ UNCHANGED monitor
    /\ UNCHANGED ghosts
    /\ UNCHANGED reporterState

Passes(t) ==
    /\ t <= MaxTime
    /\ \A d \in Deadlines : t <= d
    /\ now' = t
    /\ emitted' = <<>>
    /\ lastOp' = "idle"
    /\ UNCHANGED <<is_android, alive, enabled, mobile_panel_trigger_count_>>
    /\ UNCHANGED monitor
    /\ UNCHANGED ghosts
    /\ UNCHANGED reporterState

\* Time passes: a running timer fires at its deadline, never after it.
AdvanceTime ==
    \/ /\ (now + 1 - StartTime) % kWeek <= MaxFine
       /\ Passes(now + 1)
    \/ /\ Deadlines # {}
       /\ \E d \in Deadlines : d > now /\ Passes(d)
    \/ /\ Deadlines = {}
       /\ Passes(now + kReportInterval)

Next ==
    \/ Destroy
    \/ \E trigger \in PanelTrigger : RecordPanelTrigger(trigger)
    \/ RecordRewardsEnable
    \/ MobileTriggerTimerFires
    \/ ReportPeriodicMetrics
    \/ SetEnabled
    \/ AdvanceTime

Spec == Init /\ [][Next]_vars

\* ------------------------------------------------------ stateless reporters

\* What a stateless reporter leaves alone: all but the samples.
beyondReporters ==
    <<is_android, alive, now, enabled, mobile_panel_trigger_count_,
      ntp_enabled, notification_enabled>>

\* RecordTipsSent(tip_count)
RecordTipsSent(tip_count) ==
    /\ emitted' = RecordTipsSentSamples(tip_count)
    /\ lastOp' = "RecordTipsSent"
    /\ lastArg' = tip_count
    /\ UNCHANGED beyondReporters
    /\ UNCHANGED monitor
    /\ UNCHANGED ghosts

\* RecordNoWalletCreatedForAllMetrics()
RecordNoWalletCreatedForAllMetrics ==
    /\ emitted' = RecordNoWalletCreatedForAllMetricsSamples
    /\ lastOp' = "RecordNoWalletCreatedForAllMetrics"
    /\ UNCHANGED lastArg
    /\ UNCHANGED beyondReporters
    /\ UNCHANGED monitor
    /\ UNCHANGED ghosts

\* RecordAdTypesEnabled(prefs)
RecordAdTypesEnabled ==
    /\ emitted' = RecordAdTypesEnabledSamples
    /\ lastOp' = "RecordAdTypesEnabled"
    /\ UNCHANGED lastArg
    /\ UNCHANGED beyondReporters
    /\ UNCHANGED monitor
    /\ UNCHANGED ghosts

\* The two ad preferences are written by the settings.
SetAdPrefs ==
    /\ \E ntp, notification \in BOOLEAN :
          /\ <<ntp, notification>> # <<ntp_enabled, notification_enabled>>
          /\ ntp_enabled' = ntp
          /\ notification_enabled' = notification
    /\ emitted' = <<>>
    /\ lastOp' = "idle"
    /\ UNCHANGED <<is_android, alive, now, enabled, mobile_panel_trigger_count_,
                   lastArg>>
    /\ UNCHANGED monitor
    /\ UNCHANGED ghosts

\* The reporters are free functions of the rewards service: they run next to
\* the monitor's entry points, at one instant.
ReportersNext ==
    \/ \E tip_count \in 0..MaxTips : RecordTipsSent(tip_count)
    \/ RecordNoWalletCreatedForAllMetrics
    \/ RecordAdTypesEnabled
    \/ SetAdPrefs
    \/ SetEnabled
    \/ \E trigger \in PanelTrigger : RecordPanelTrigger(trigger)
    \/ RecordRewardsEnable

ReportersSpec == Init /\ [][ReportersNext]_vars

\* The message loop runs a timer's callback once it is due, and time passes.
LiveSpec ==
    /\ Spec
    /\ WF_vars(AdvanceTime)
    /\ WF_vars(MobileTriggerTimerFires)
    /\ WF_vars(ReportPeriodicMetrics)

\* ------------------------------------------------------------------ claims

\* The EnabledSource samples of the last step.
Attributions == SamplesOf(emitted, kEnabledSourceHistogramName)

\* The last step was RecordRewardsEnable on the desktop build.
DesktopEnable == ~is_android /\ lastOp = "RecordRewardsEnable"

\* C1: on desktop, a RecordRewardsEnable that directly follows
\* RecordPanelTrigger(K) after D records EnabledSource = K when
\* D <= kMaxEnabledCauseTriggerTime, and no EnabledSource sample otherwise.
C1_AttributionIffWithinWindow ==
    (DesktopEnable /\ lastTrig.at # 0 /\ enablesSinceTrigger = 1) =>
        IF now - lastTrig.at <= kMaxEnabledCauseTriggerTime
        THEN Attributions = <<Enumeration(kEnabledSourceHistogramName, lastTrig.kind)>>
        ELSE Attributions = <<>>

\* C1 witness: an enable exactly one window after its trigger attributes.
C1_Witness ==
    /\ DesktopEnable
    /\ enablesSinceTrigger = 1
    /\ lastTrig.at # 0
    /\ now - lastTrig.at = kMaxEnabledCauseTriggerTime
    /\ Len(Attributions) = 1

\* C2: on desktop, every EnabledSource sample carries the kind of the last
\* RecordPanelTrigger call, made no more than one window before the enable.
C2_OnlyLatestTrigger ==
    DesktopEnable =>
        \A i \in 1..Len(Attributions) :
            /\ lastTrig.at # 0
            /\ Attributions[i].sample = lastTrig.kind
            /\ now - lastTrig.at <= kMaxEnabledCauseTriggerTime

\* C2 witness: an attribution after a trigger of another kind, itself older
\* than the window, was overwritten.
C2_Witness ==
    /\ DesktopEnable
    /\ Len(Attributions) = 1
    /\ lastTrig.overwritten # <<>>
    /\ lastTrig.overwritten[1] # lastTrig.kind
    /\ now - lastTrig.overwrittenAt > kMaxEnabledCauseTriggerTime

\* C3: on desktop, no RecordPanelTrigger call is followed by more than one
\* EnabledSource sample before the next call, and there are never more
\* EnabledSource samples than RecordPanelTrigger calls.
C3_TriggerConsumedOnce ==
    ~is_android => (attribSinceTrigger <= 1 /\ nattrib <= ncalls)

\* C3 witness: a second enable, still within the window of a trigger already
\* attributed, records no EnabledSource sample.
C3_Witness ==
    /\ DesktopEnable
    /\ enablesSinceTrigger = 2
    /\ attribSinceTrigger = 1
    /\ now - lastTrig.at <= kMaxEnabledCauseTriggerTime
    /\ Attributions = <<>>

\* C4: on desktop, every RecordRewardsEnable records exactly one sample into
\* the toolbar-trigger histogram, the suppressing one, before anything else.
C4_SuppressThenAttribute ==
    DesktopEnable =>
        /\ Len(emitted) >= 1
        /\ emitted[1] = ExactLinear(kToolbarButtonTriggerHistogramName, INT_MAX - 1, 2)
        /\ Len(SamplesOf(emitted, kToolbarButtonTriggerHistogramName)) = 1
        /\ Len(emitted) = 1 + Len(Attributions)

\* C4 witness: an enable that attributes, its EnabledSource sample second.
C4_Witness ==
    /\ DesktopEnable
    /\ Len(emitted) = 2
    /\ emitted[2].name = kEnabledSourceHistogramName

\* The one MobileConversion sample of the feature's present state.
ConversionSample == <<BooleanSample(kMobileConversionHistogramName, enabled)>>

\* C5: on Android, RecordRewardsEnable stops the deferred timer and records
\* the MobileConversion sample of the feature's state once; a timer it
\* stopped is not running and has not fired at any later time.
C5_EnableCancelsDeferred ==
    is_android =>
        /\ lastOp = "RecordRewardsEnable" =>
              (mobile_trigger_timer_ = <<>> /\ emitted = ConversionSample)
        /\ cancelled # <<>> =>
              (mobile_trigger_timer_ = <<>> /\ firesSinceTrigger = 0)

\* C5 witness: the deadline of a timer stopped by RecordRewardsEnable has
\* passed without a firing.
C5_Witness ==
    /\ is_android
    /\ alive
    /\ cancelled # <<>>
    /\ now > cancelled[1]
    /\ firesSinceTrigger = 0

\* C6: on Android, the deferred callback runs one window after the trigger
\* that started it, once, and records the one MobileConversion sample of the
\* feature's state at that time; a running timer is never overdue.
C6_DeferredFiresAfterWindow ==
    is_android =>
        /\ lastOp = "OnMobileTriggerTimer" =>
              /\ now = timerTrig + kMaxEnabledCauseTriggerTime
              /\ emitted = ConversionSample
              /\ firesSinceTrigger = 1
        /\ HasValue(mobile_trigger_timer_) => now <= mobile_trigger_timer_[1]

\* C6 witness: the callback fires with the feature enabled, the trigger
\* having been made with it not enabled.
C6_Witness ==
    /\ is_android
    /\ lastOp = "OnMobileTriggerTimer"
    /\ enabled
    /\ emitted[1].sample = 1

\* C7: on Android, at most one deferred callback is pending, its deadline is
\* one window after the last trigger made with the feature not enabled, and
\* none has fired since that trigger while it is pending.
C7_SingleSlotTimer ==
    is_android =>
        /\ Len(mobile_trigger_timer_) <= 1
        /\ HasValue(mobile_trigger_timer_) =>
              /\ mobile_trigger_timer_[1] = timerTrig + kMaxEnabledCauseTriggerTime
              /\ firesSinceTrigger = 0
        /\ firesSinceTrigger <= 1

\* C7 witness: the callback fires after a run of two triggers less than one
\* window apart.
C7_Witness ==
    /\ is_android
    /\ lastOp = "OnMobileTriggerTimer"
    /\ runLen >= 2
    /\ firesSinceTrigger = 1

\* C8 as stated: on Android, the weekly sum is the number of
\* RecordPanelTrigger calls of the trailing 7 days.
C8_Original ==
    is_android =>
        GetWeeklySum(mobile_panel_trigger_count_, now) = GetWeeklySum(callsAll, now)

\* C8: on Android, the weekly sum is the number of RecordPanelTrigger calls
\* of the trailing 7 days that were made with the feature enabled.
C8_WeeklySumOfEnabledTriggers ==
    is_android =>
        GetWeeklySum(mobile_panel_trigger_count_, now) = GetWeeklySum(callsEnabled, now)

\* C8 witness: a counted call is older than 7 days and another is not, and a
\* call made with the feature not enabled lies in the trailing 7 days.
C8_Witness ==
    /\ is_android
    /\ \E i \in 1..Len(mobile_panel_trigger_count_) :
          now - mobile_panel_trigger_count_[i].at > kWeek
    /\ GetWeeklySum(mobile_panel_trigger_count_, now) > 0
    /\ GetWeeklySum(callsAll, now) > GetWeeklySum(callsEnabled, now)

\* The last step ran ReportMobilePanelTriggerCount.
Flushed ==
    /\ is_android
    /\ \/ lastOp \in {"ConversionMonitor", "ReportPeriodicMetrics"}
       \/ lastOp = "RecordPanelTrigger" /\ enabled

\* C9: on Android, ReportMobilePanelTriggerCount records nothing when the
\* weekly sum is 0, and otherwise one MobilePanelCount sample, the number of
\* thresholds among 5, 10 and 50 that are <= the sum.
C9_FlushBucket ==
    Flushed =>
        LET total == GetWeeklySum(mobile_panel_trigger_count_, now)
        IN  IF total = 0 THEN emitted = <<>>
            ELSE /\ Len(emitted) = 1
                 /\ emitted[1].name = kMobilePanelCountHistogramName
                 /\ emitted[1].sample = Cardinality({b \in {5, 10, 50} : b <= total})
                 /\ (total = 4 => emitted[1].sample = 0)
                 /\ (total = 5 => emitted[1].sample = 1)
                 /\ (total = 49 => emitted[1].sample = 2)
                 /\ (total = 50 => emitted[1].sample = 3)

\* C9 witness: a flush of a weekly sum of 50 records bucket 3.
C9_Witness ==
    /\ Flushed
    /\ GetWeeklySum(mobile_panel_trigger_count_, now) = 50
    /\ emitted[1].sample = 3

\* C10: on Android, while the monitor lives one periodic callback is pending,
\* due no later than one report interval from now; construction and every
\* firing flush and schedule the next firing one interval later; and while
\* time goes on every pending firing is followed by the report, again and
\* again, unless the monitor ends.
C10_PeriodicReporter ==
    /\ []((is_android /\ alive) =>
            /\ Len(daily_timer_) = 1
            /\ now <= daily_timer_[1]
            /\ daily_timer_[1] <= now + kReportInterval
            /\ lastOp \in {"ConversionMonitor", "ReportPeriodicMetrics"} =>
                  /\ daily_timer_[1] = now + kReportInterval
                  /\ emitted = ReportMobilePanelTriggerCount(
                                   mobile_panel_trigger_count_, now))
    /\ (is_android /\ alive /\ lastOp # "ReportPeriodicMetrics"
           /\ HasValue(daily_timer_) /\ daily_timer_[1] <= MaxTime)
          ~> (~alive \/ (lastOp = "ReportPeriodicMetrics" /\ daily_timer_[1] > now))

\* C10 witness: the second periodic firing, which records a sample.
C10_Witness ==
    /\ is_android
    /\ alive
    /\ lastOp = "ReportPeriodicMetrics"
    /\ now = StartTime + 2 * kReportInterval
    /\ emitted # <<>>

\* C11: on Android, once the monitor is destroyed neither timer is running,
\* no callback of it runs and no sample is recorded for it, whatever was
\* pending at the destruction.
C11_DestroyCancelsTimers ==
    (is_android /\ ~alive) =>
        /\ mobile_trigger_timer_ = <<>>
        /\ daily_timer_ = <<>>
        /\ emitted = <<>>
        /\ lastOp \in {"~ConversionMonitor", "idle"}

\* C11 witness: the monitor ended with both callbacks pending, and both
\* deadlines have passed.
C11_Witness ==
    /\ is_android
    /\ ~alive
    /\ Cardinality(destroyedWith) = 2
    /\ \A d \in destroyedWith : now > d

Sentinels ==
    IF lastOp = "RecordNoWalletCreatedForAllMetrics" THEN emitted
    ELSE IF lastOp = "RecordAdTypesEnabled" /\ ~enabled THEN emitted
    ELSE IF DesktopEnable THEN SubSeq(emitted, 1, 1)
    ELSE <<>>

\* The suspending value as the claim has it: the boundary less 2.
C13_Original ==
    \A i \in 1..Len(Sentinels) : Sentinels[i].sample = Sentinels[i].max - 2

\* C13: every suspending sample is INT_MAX - 1, whatever the exclusive
\* boundary (2, 3 or 4) of its histogram, and so lies beyond the boundary;
\* RecordNoWalletCreatedForAllMetrics records two of them, the two others one.
C13_SentinelIsIntMaxLessOne ==
    /\ \A i \in 1..Len(Sentinels) :
          /\ Sentinels[i].macro = "UMA_HISTOGRAM_EXACT_LINEAR"
          /\ Sentinels[i].sample = INT_MAX - 1
          /\ Sentinels[i].sample >= Sentinels[i].max
          /\ Sentinels[i].max \in {2, 3, 4}
    /\ lastOp = "RecordNoWalletCreatedForAllMetrics" => Len(Sentinels) = 2
    /\ (lastOp = "RecordAdTypesEnabled" /\ ~enabled) => Len(Sentinels) = 1
    /\ DesktopEnable => Len(Sentinels) = 1

\* C13 witness: RecordNoWalletCreatedForAllMetrics has suspended TipsSent and
\* AutoContributionsState.
C13_Witness ==
    /\ lastOp = "RecordNoWalletCreatedForAllMetrics"
    /\ Len(Sentinels) = 2
    /\ Sentinels[1].name = kTipsSentHistogramName
    /\ Sentinels[2].name = kAutoContributionsStateHistogramName

\* C14: a desktop RecordPanelTrigger(kind) records the sample 1 of
\* ToolbarButtonTrigger when kind is the toolbar button and nothing otherwise,
\* never an EnabledSource sample, and leaves the slot holding kind and the
\* time of the call, whatever was pending.
C14_TriggerCounterOnly ==
    (~is_android /\ lastOp = "RecordPanelTrigger") =>
        /\ emitted = (IF lastTrig.kind = kToolbarButton
                      THEN <<ExactLinear(kToolbarButtonTriggerHistogramName,
                                         1, 2)>>
                      ELSE <<>>)
        /\ Attributions = <<>>
        /\ last_trigger_ = <<lastTrig.kind>>
        /\ last_trigger_time_ = now
        /\ lastTrig.at = now

\* C14 witness: a toolbar-button trigger made over a pending trigger of
\* another kind.
C14_Witness ==
    /\ ~is_android
    /\ lastOp = "RecordPanelTrigger"
    /\ lastTrig.kind = kToolbarButton
    /\ lastTrig.overwritten = <<kNTP>>
    /\ Len(emitted) = 1

\* C15: on Android a RecordPanelTrigger made with prefs::kEnabled set raises
\* the weekly sum by exactly 1 and records exactly one MobilePanelCount
\* sample, the bucket of the sum that includes this trigger.
C15_EnabledTriggerCountsAndFlushes ==
    [][(is_android /\ enabled /\ lastOp' = "RecordPanelTrigger"
        /\ ncalls' = ncalls + 1) =>
          /\ GetWeeklySum(mobile_panel_trigger_count_', now)
                = GetWeeklySum(mobile_panel_trigger_count_, now) + 1
          /\ emitted' = <<RecordToHistogramBucket(
                            kMobilePanelCountHistogramName,
                            kMobilePanelCountBuckets,
                            GetWeeklySum(mobile_panel_trigger_count_, now) + 1)>>
      ]_vars

\* C15 witness: the trigger that takes the weekly sum from 4 to 5 is reported
\* in bucket 1.
C15_Witness ==
    /\ is_android
    /\ enabled
    /\ lastOp = "RecordPanelTrigger"
    /\ GetWeeklySum(mobile_panel_trigger_count_, now) = 5
    /\ Len(emitted) = 1
    /\ emitted[1].sample = 1

\* C16: on desktop a RecordRewardsEnable made more than one minute after the
\* last RecordPanelTrigger, or with no trigger made, records no EnabledSource
\* sample; and a trigger not yet attributed stays in the slot however old.
C16_StaleTriggerNeverAttributed ==
    /\ (DesktopEnable
        /\ (lastTrig.at = 0 \/ now - lastTrig.at > kMaxEnabledCauseTriggerTime))
          => Attributions = <<>>
    /\ (~is_android /\ alive /\ lastTrig.at # 0 /\ attribSinceTrigger = 0)
          => /\ last_trigger_ = <<lastTrig.kind>>
             /\ last_trigger_time_ = lastTrig.at

\* C16 witness: the second enable made after the window of a trigger has
\* passed; the trigger is still in the slot.
C16_Witness ==
    /\ DesktopEnable
    /\ enablesSinceTrigger = 2
    /\ attribSinceTrigger = 0
    /\ HasValue(last_trigger_)
    /\ now - last_trigger_time_ > kMaxEnabledCauseTriggerTime
    /\ Attributions = <<>>

\* C17: on Android RecordPanelTrigger and RecordRewardsEnable leave
\* daily_timer_ as it is, and a firing of daily_timer_ leaves
\* mobile_trigger_timer_ as it is and records no MobileConversion sample.
C17_TimersIndependent ==
    [][is_android =>
          /\ lastOp' \in {"RecordPanelTrigger", "RecordRewardsEnable"}
                => daily_timer_' = daily_timer_
          /\ lastOp' = "ReportPeriodicMetrics"
                => /\ mobile_trigger_timer_' = mobile_trigger_timer_
                   /\ SamplesOf(emitted', kMobileConversionHistogramName) = <<>>
      ]_vars

\* C17 witness: the periodic report has run while the deferred check was
\* pending.
C17_Witness ==
    /\ is_android
    /\ lastOp = "ReportPeriodicMetrics"
    /\ HasValue(mobile_trigger_timer_)
    /\ mobile_trigger_timer_[1] > now
    /\ daily_timer_ = <<now + kReportInterval>>

\* C18: on Android a RecordPanelTrigger made with prefs::kEnabled unset
\* leaves the counter as it is and records nothing, it only starts the timer;
\* one made with prefs::kEnabled set leaves the timer as it is.
C18_TriggerBranchesDisjoint ==
    [][(is_android /\ lastOp' = "RecordPanelTrigger" /\ ncalls' = ncalls + 1) =>
          IF enabled
          THEN mobile_trigger_timer_' = mobile_trigger_timer_
          ELSE /\ mobile_panel_trigger_count_' = mobile_panel_trigger_count_
               /\ emitted' = <<>>
               /\ mobile_trigger_timer_' = <<now + kMaxEnabledCauseTriggerTime>>
      ]_vars

\* C18 witness: a trigger made with prefs::kEnabled set while the deferred
\* check of an earlier trigger is pending.
C18_Witness ==
    /\ is_android
    /\ enabled
    /\ lastOp = "RecordPanelTrigger"
    /\ HasValue(mobile_trigger_timer_)
    /\ timerTrig # 0
    /\ Len(emitted) = 1

\* C19: a desktop RecordRewardsEnable that records no EnabledSource sample
\* leaves last_trigger_ and last_trigger_time_ as they were; a held trigger
\* leaves the slot only by an attribution (or with the monitor).
C19_FailedEnableKeepsSlot ==
    [][~is_android =>
          /\ (lastOp' = "RecordRewardsEnable"
              /\ SamplesOf(emitted', kEnabledSourceHistogramName) = <<>>)
                => UNCHANGED <<last_trigger_, last_trigger_time_>>
          /\ (HasValue(last_trigger_) /\ ~HasValue(last_trigger_'))
                => \/ lastOp' = "~ConversionMonitor"
                   \/ /\ lastOp' = "RecordRewardsEnable"
                      /\ Len(SamplesOf(emitted', kEnabledSourceHistogramName)) = 1
      ]_vars

\* C19 witness: the first enable after a trigger came too late, and the slot
\* holds the trigger as the call stored it.
C19_Witness ==
    /\ DesktopEnable
    /\ enablesSinceTrigger = 1
    /\ Attributions = <<>>
    /\ last_trigger_ = <<lastTrig.kind>>
    /\ last_trigger_time_ = lastTrig.at
    /\ lastTrig.at # 0

\* C20: on desktop last_trigger_ holds a kind exactly when last_trigger_time_
\* is not null.
C20_SlotFieldsTogether ==
    ~is_android => (HasValue(last_trigger_) <=> last_trigger_time_ # 0)

\* C20 witness: an attribution has emptied the slot, kind and time.
C20_Witness ==
    /\ DesktopEnable
    /\ Len(Attributions) = 1
    /\ last_trigger_ = <<>>
    /\ last_trigger_time_ = 0
    /\ lastTrig.at # 0

====
